---- MODULE Spec2Model ----
(***************************************************************************)
(* Span tag validation of dd-apm-test-agent.                               *)
(*                                                                         *)
(* Two entry points are modelled side by side:                             *)
(*   - SpanTagChecksLoader + SpanTagValidationCheck + SpanTagChecks +      *)
(*     TagCheck (tag_checks.py, span_tag_validation_check.py)              *)
(*   - SpanTagValidator (span_tag_validator.py)                            *)
(*                                                                         *)
(* Python values are records [ty, s, n]: ty is the runtime type, s the     *)
(* text of a str, n the number of an int / bool / float.  A dict is a      *)
(* function from keys to values when it is only looked up, and a sequence  *)
(* of entries when the code iterates it (a span, a rule list).             *)
(***************************************************************************)
EXTENDS Integers, Sequences, FiniteSets, TLC

VARIABLES
    session,            \* which inputs and callers the behaviour has (see Init)
    integration_specs,  \* SpanTagChecksLoader.integration_specs
    unpack_initial,     \* the default argument object of unpack(data, initial={})
    found,              \* result of the last find_span_tag_check call
    chk,                \* SpanTagValidationCheck objects, by run
    val                 \* the SpanTagValidator object

vars == <<session, integration_specs, unpack_initial, found, chk, val>>

----------------------------------------------------------------------------
(* Bounds *)

\* SpanTagValidationCheck objects constructed one after the other in a
\* "repeat" session
MaxChecks == 2

\* validate() calls made on the one SpanTagValidator object
MaxValidates == 2

----------------------------------------------------------------------------
(* Python values *)

PyNone == [ty |-> "NoneType", s |-> "", n |-> 0]

PyStr(x) == [ty |-> "str", s |-> x, n |-> 0]

PyInt(i) == [ty |-> "int", s |-> "", n |-> i]

PyBool(b) == [ty |-> "bool", s |-> "", n |-> IF b THEN 1 ELSE 0]

\* bool(v) as `if v:` evaluates it
Truthy(v) ==
    CASE v.ty = "str" -> v.s # ""
      [] v.ty \in {"int", "bool", "float"} -> v.n # 0
      [] OTHER -> FALSE

\* a == b
PyEq(a, b) ==
    IF a.ty = "str" \/ b.ty = "str" THEN a.ty = b.ty /\ a.s = b.s
    ELSE IF a.ty = "NoneType" \/ b.ty = "NoneType" THEN a.ty = b.ty
    ELSE a.n = b.n

\* dict operations on a dict held as a function
EmptyDict == << >>

Put(f, k, v) == [x \in (DOMAIN f) \cup {k} |-> IF x = k THEN v ELSE f[x]]

Del(f, k) == [x \in (DOMAIN f) \ {k} |-> f[x]]

\* a dict the code iterates: a sequence of entries; an entry holds a value
\* (d = FALSE) or a nested dict (d = TRUE, its entries in c)
Leaf(k, v) == [k |-> k, d |-> FALSE, v |-> v, c |-> << >>]

Dict(k, c) == [k |-> k, d |-> TRUE, v |-> PyNone, c |-> c]

HasKey(data, k) == \E i \in 1..Len(data) : data[i].k = k

Entry(data, k) == data[CHOOSE i \in 1..Len(data) : data[i].k = k]

\* data.get(k, default) for a value entry
GetVal(data, k, default) ==
    IF HasKey(data, k) /\ ~Entry(data, k).d THEN Entry(data, k).v ELSE default

\* data.get(k, {}) for a nested dict
GetDict(data, k) ==
    IF HasKey(data, k) /\ Entry(data, k).d THEN Entry(data, k).c ELSE << >>

----------------------------------------------------------------------------
(* Module constants *)

IGNORED_TAGS ==
    {"span_id", "trace_id", "duration", "start", "resource", "parent_id",
     "env", "version", "service", "name"}

SPAN_TYPES ==
    {"cache", "cassandra", "elasticsearch", "grpc", "graphql", "http",
     "mongodb", "redis", "sql", "template", "test", "web", "worker"}

TESTED_SPAN_TYPES == {"http"}

string_to_type_map ==
    [t \in {"string", "integer", "bool", "float", "str", "int"} |->
        CASE t = "string" -> "str"
          [] t = "integer" -> "int"
          [] t = "bool" -> "bool"
          [] t = "float" -> "float"
          [] t = "str" -> "str"
          [] t = "int" -> "int"]

----------------------------------------------------------------------------
(* Specification files.  A rule object holds the optional JSON members     *)
(* "required", "type" and "value" (PyNone when the member is absent); a    *)
(* document holds "name", the optional "type" and "specification.tags".    *)

Rule(name, required, type, value) ==
    [name |-> name, required |-> required, type |-> type, value |-> value]

Doc(name, type, tags) == [name |-> name, type |-> type, tags |-> tags]

\* a file holding one document, and a file holding an array of documents
ObjectFile(doc) == [list |-> FALSE, docs |-> <<doc>>]

ListFile(docs) == [list |-> TRUE, docs |-> docs]

\* ./specifications/ddtrace/<LANGUAGE>/
GeneralSpecFiles ==
    [f \in {"general-spec.json", "error-spec.json", "internal-spec.json",
            "http-spec.json"} |->
        CASE f = "general-spec.json" ->
                ObjectFile(Doc("general", PyNone,
                    <<Rule("language", PyBool(TRUE), PyStr("string"), PyNone)>>))
          [] f = "error-spec.json" ->
                ObjectFile(Doc("error", PyNone,
                    <<Rule("error.msg", PyBool(TRUE), PyNone, PyNone)>>))
          [] f = "internal-spec.json" ->
                ObjectFile(Doc("internal", PyNone,
                    <<Rule("runtime-id", PyBool(FALSE), PyStr("string"), PyNone)>>))
          [] f = "http-spec.json" ->
                ObjectFile(Doc("http", PyStr("http"),
                    <<Rule("http.status_code", PyBool(TRUE), PyStr("string"), PyNone),
                      Rule("span.kind", PyBool(TRUE), PyNone, PyStr("client"))>>))]

\* ./specifications/integration/
IntegrationSpecFiles ==
    [f \in {"redis-spec.json", "kafka-spec.json", "flask-spec.json"} |->
        CASE f = "redis-spec.json" ->
                ListFile(<<
                    Doc("redis.command", PyStr("http"),
                        <<Rule("component", PyBool(TRUE), PyNone, PyStr("redis")),
                          Rule("out.host", PyBool(FALSE), PyStr("string"), PyNone),
                          Rule("language", PyBool(TRUE), PyStr("string"), PyNone)>>),
                    Doc("redis.*", PyNone,
                        <<Rule("component", PyBool(TRUE), PyStr("string"), PyNone),
                          Rule("service", PyBool(TRUE), PyStr("string"), PyNone)>>)>>)
          [] f = "kafka-spec.json" ->
                ListFile(<<
                    Doc("kafka.produce", PyStr("queue"),
                        <<Rule("component", PyBool(TRUE), PyStr("string"), PyNone)>>)>>)
          [] f = "flask-spec.json" ->
                ObjectFile(Doc("flask.request", PyStr("http"),
                    <<Rule("component", PyBool(TRUE), PyStr("string"), PyNone)>>))]

----------------------------------------------------------------------------
(* tag_checks.py: unpack, TagCheck, SpanTagChecks, SpanTagChecksLoader *)

\* unpack(data, initial): writes every non-dict entry of data, at any depth,
\* into initial and returns it
RECURSIVE unpack(_, _)
unpack(data, initial) ==
    IF Len(data) = 0 THEN initial
    ELSE LET e == Head(data)
         IN unpack(Tail(data),
                   IF e.d THEN unpack(e.c, initial) ELSE Put(initial, e.k, e.v))

\* TagCheck.__init__
TagCheck(name, val_type, required, value) ==
    [name |-> name, val_type |-> val_type, required |-> required, value |-> value]

\* SpanTagChecks.__init__: one TagCheck per key of tags, in order
SpanTagChecks(name, tags, span_type) ==
    [name |-> name,
     span_type |-> span_type,
     tag_checks |-> [i \in 1..Len(tags) |->
                        TagCheck(tags[i].name, tags[i].type, tags[i].required,
                                 tags[i].value)]]

\* the key of a specification file in SpanTagChecksLoader.integration_specs:
\* str(spec_file.name)[:-10]
SpecKey(file_name) == SubSeq(file_name, 1, Len(file_name) - 10)

\* the { <SPEC_NAME> : <SPEC_INDEX_IN_FILE> } dict of one file; a file that
\* holds a single object gets the empty dict
SpecIndexOfFile(file) ==
    IF file.list
    THEN [n \in {file.docs[i].name : i \in 1..Len(file.docs)} |->
            (CHOOSE i \in 1..Len(file.docs) :
                /\ file.docs[i].name = n
                /\ \A j \in 1..Len(file.docs) : file.docs[j].name = n => j <= i) - 1]
    ELSE EmptyDict

\* SpanTagChecksLoader.__init__
LoaderInit(files) ==
    [c \in {SpecKey(f) : f \in DOMAIN files} |->
        SpecIndexOfFile(files[CHOOSE f \in DOMAIN files : SpecKey(f) = c])]

\* what a call returns: the exception it raised ("" for none) and its value
Returned(v) == [exc |-> "", value |-> v]

Raised(e) == [exc |-> e, value |-> << >>]

\* SpanTagChecksLoader.load_span_tag_check; spec_index is << >> for None
load_span_tag_check(files, file_name, spec_index) ==
    IF file_name \in DOMAIN files
    THEN LET data == IF Len(spec_index) > 0
                     THEN files[file_name].docs[spec_index[1] + 1]
                     ELSE files[file_name].docs[1]
         IN Returned(SpanTagChecks(data.name, data.tags, data.type))
    ELSE Raised("FileNotFoundError")

\* SpecIndexFor with the lookup order swapped: the "<component>.*" entry
\* is taken whenever there is one
SpecIndexForWildcardFirst(specs, component, span_name) ==
    IF (component \o ".*") \in DOMAIN specs[component]
    THEN Returned(specs[component][component \o ".*"])
    ELSE IF span_name \in DOMAIN specs[component]
         THEN Returned(specs[component][span_name])
         ELSE Raised("KeyError")

\* the index find_span_tag_check picks for a span of a known component
SpecIndexFor(specs, component, span_name) ==
    IF span_name \in DOMAIN specs[component]
    THEN Returned(specs[component][span_name])
    ELSE IF (component \o ".*") \in DOMAIN specs[component]
         THEN Returned(specs[component][component \o ".*"])
         ELSE Raised("KeyError")

\* WithTypeCheck storing the loaded check under the integration key
WithTypeCheckWrongKey(span_checks, span_type) ==
    LET loaded == load_span_tag_check(GeneralSpecFiles, span_type \o "-spec.json", << >>)
    IN IF loaded.exc # "" THEN Raised(loaded.exc)
       ELSE Returned(Put(span_checks, "integration_span_check", loaded.value))

\* the type_span_check find_span_tag_check loads, added to span_checks
WithTypeCheck(span_checks, span_type) ==
    LET loaded == load_span_tag_check(GeneralSpecFiles, span_type \o "-spec.json", << >>)
    IN IF loaded.exc # "" THEN Raised(loaded.exc)
       ELSE Returned(Put(span_checks, "type_span_check", loaded.value))

\* SpanTagChecksLoader.find_span_tag_check
find_span_tag_check(specs, span) ==
    LET component == GetVal(GetDict(span, "meta"), "component", PyStr(""))
        span_name == GetVal(span, "name", PyNone)
        span_type == GetVal(span, "type", PyNone)
        known == /\ ~PyEq(component, PyStr(""))
                 /\ component.ty = "str"
                 /\ component.s \in DOMAIN specs
        index == SpecIndexFor(specs, component.s, span_name.s)
        integration ==
            load_span_tag_check(IntegrationSpecFiles, component.s \o "-spec.json",
                                <<index.value>>)
        with_integration ==
            IF ~known THEN Returned(EmptyDict)
            ELSE IF index.exc # "" THEN Raised(index.exc)
            ELSE IF integration.exc # "" THEN Raised(integration.exc)
            ELSE LET checks == Put(EmptyDict, "integration_span_check", integration.value)
                     t == integration.value.span_type
                 IN IF Truthy(t) /\ t.ty = "str" /\ t.s \in TESTED_SPAN_TYPES
                    THEN WithTypeCheck(checks, t.s)
                    ELSE Returned(checks)
    IN IF with_integration.exc # "" THEN with_integration
       ELSE IF /\ Truthy(span_type)
               /\ "integration_span_check" \notin DOMAIN with_integration.value
               /\ span_type.ty = "str"
               /\ span_type.s \in TESTED_SPAN_TYPES
            THEN WithTypeCheck(with_integration.value, span_type.s)
            ELSE with_integration

\* Check.fail(message): the failure is recorded with the check that failed
Failure(kind, tag, check) == [kind |-> kind, tag |-> tag, check |-> check, left |-> {}]

\* what TagCheck.check leaves behind: the failures it recorded, the exception
\* it raised ("" for none) and the dict unpack(span) wrote into
Checked(fails, exc, flat) == [fails |-> fails, exc |-> exc, flat |-> flat]

\* the type comparison of TagCheck.check: type(flattened_span[name]) against
\* string_to_type_map[val_type]
TypeChecked(tc, span_check_name, flat, fails) ==
    IF tc.name \notin DOMAIN flat THEN Checked(fails, "KeyError", flat)
    ELSE IF tc.val_type.ty # "str" \/ tc.val_type.s \notin DOMAIN string_to_type_map
         THEN Checked(fails, "KeyError", flat)
    ELSE IF flat[tc.name].ty # string_to_type_map[tc.val_type.s]
         THEN Checked(Append(fails, Failure("TAG-VALUE-TYPE-ERROR", tc.name, span_check_name)),
                      "", flat)
    ELSE Checked(fails, "", flat)

\* TagCheck.check after its first statement: the rule judged against
\* flattened_span, the dict unpack returned
TagCheck_judge(tc, span_check_name, flat) ==
    LET missing == tc.name \notin DOMAIN flat
        required_fail ==
            IF missing
            THEN <<Failure("REQUIRED-TAG-ERROR", tc.name, span_check_name)>>
            ELSE << >>
    IN IF Truthy(tc.required) /\ Truthy(tc.value)
       THEN IF missing THEN Checked(required_fail, "KeyError", flat)
            ELSE IF ~PyEq(flat[tc.name], tc.value)
                 THEN Checked(<<Failure("MATCHING-TAG-ERROR", tc.name, span_check_name)>>,
                              "", flat)
            ELSE Checked(<< >>, "", flat)
       ELSE IF Truthy(tc.required)
       THEN IF Truthy(tc.val_type) THEN TypeChecked(tc, span_check_name, flat, required_fail)
            ELSE Checked(required_fail, "", flat)
       ELSE IF missing THEN Checked(<< >>, "", flat)
            ELSE IF Truthy(tc.val_type) THEN TypeChecked(tc, span_check_name, flat, << >>)
            ELSE Checked(<< >>, "", flat)

\* TagCheck.check(span, span_check_name), with `initial` the default argument
\* object unpack writes into
TagCheck_check(tc, span, span_check_name, initial) ==
    TagCheck_judge(tc, span_check_name, unpack(span, initial))

\* TagsAfterCheck entering the tag of a rule the working set does not hold
TagsAfterCheckKeepsAbsent(tags, tc) == IF tc.name \in DOMAIN tags THEN Del(tags, tc.name) ELSE Put(tags, tc.name, PyNone)

\* the tags SpanTagChecks.check leaves in span_validator_check._tags once
\* tag_check has been checked
TagsAfterCheck(tags, tc) == IF tc.name \in DOMAIN tags THEN Del(tags, tc.name) ELSE tags

----------------------------------------------------------------------------
(* span_tag_validation_check.py: SpanTagValidationCheck *)

\* check_extract_tags keeping the value met first for a key met again
RECURSIVE check_extract_tagsFirstWins(_, _)
check_extract_tagsFirstWins(span, extracted_tags) ==
    IF Len(span) = 0 THEN extracted_tags
    ELSE LET e == Head(span)
         IN check_extract_tagsFirstWins(Tail(span),
                IF e.d THEN check_extract_tagsFirstWins(e.c, extracted_tags)
                ELSE IF e.k \in IGNORED_TAGS \/ e.k \in DOMAIN extracted_tags
                     THEN extracted_tags
                ELSE Put(extracted_tags, e.k, e.v))

\* SpanTagValidationCheck.extract_tags
RECURSIVE check_extract_tags(_, _)
check_extract_tags(span, extracted_tags) ==
    IF Len(span) = 0 THEN extracted_tags
    ELSE LET e == Head(span)
         IN check_extract_tags(Tail(span),
                IF e.d THEN check_extract_tags(e.c, extracted_tags)
                ELSE IF e.k \in IGNORED_TAGS THEN extracted_tags
                ELSE Put(extracted_tags, e.k, e.v))

\* list.insert(1, x)
Insert1(list, x) == <<Head(list), x>> \o Tail(list)

\* CheckPlan with the first-in-chunk check put between the general and the
\* internal check
CheckPlanFirstInChunkSecond(span, general, error, internal, type_span_check, integration_span_check, first_in_chunk_span_check) ==
    LET base == <<general>> \o first_in_chunk_span_check \o <<internal>>
        span_error == GetVal(span, "error", PyNone)
        with_error == IF Truthy(span_error) /\ PyEq(span_error, PyInt(1))
                      THEN Insert1(base, error)
                      ELSE base
    IN with_error \o type_span_check \o integration_span_check

\* the span_tags_checks list SpanTagValidationCheck.__init__ builds; an
\* optional check is << >> (None) or <<check>>
CheckPlan(span, general, error, internal, type_span_check, integration_span_check, first_in_chunk_span_check) ==
    LET base == <<general, internal>> \o first_in_chunk_span_check
        span_error == GetVal(span, "error", PyNone)
        with_error == IF Truthy(span_error) /\ PyEq(span_error, PyInt(1))
                      THEN Insert1(base, error)
                      ELSE base
    IN with_error \o type_span_check \o integration_span_check

\* the validate_all_tags SpanTagValidationCheck.__init__ sets
CheckValidateAll(span, integration_span_check) ==
    LET span_type == GetVal(span, "type", PyNone)
    IN /\ Len(integration_span_check) > 0
       /\ Truthy(span_type)
       /\ \/ PyEq(span_type, PyStr(""))
          \/ /\ span_type.ty = "str"
             /\ span_type.s \in SPAN_TYPES
             /\ span_type.s \in TESTED_SPAN_TYPES

\* SpanTagValidationCheck.check, after the loop: the branch taken on the
\* leftover tags ("FAIL": self.fail, "WARN": warn_tags_not_asserted_on,
\* "PASS": print_validation_success)
CheckOutcome(tags, validate_all_tags) ==
    IF Cardinality(DOMAIN tags) > 0
    THEN IF validate_all_tags THEN "FAIL" ELSE "WARN"
    ELSE "PASS"

----------------------------------------------------------------------------
(* span_tag_validator.py: SpanTagValidator *)

\* the tag rules objects SpanTagValidator works on: the rules of a
\* specification split into exact-match comparisons, required tags and
\* optional tags
TagRules(doc) ==
    [name |-> doc.name,
     type |-> doc.type,
     _tag_comparisons |->
        SelectSeq(doc.tags, LAMBDA r : r.value # PyNone),
     _required_tags |->
        SelectSeq(doc.tags, LAMBDA r : r.value = PyNone /\ Truthy(r.required)),
     _optional_tags |->
        SelectSeq(doc.tags, LAMBDA r : r.value = PyNone /\ ~Truthy(r.required))]

GENERAL_SPAN_RULES == TagRules(GeneralSpecFiles["general-spec.json"].docs[1])

ERROR_SPAN_RULES == TagRules(GeneralSpecFiles["error-spec.json"].docs[1])

INTERNAL_SPAN_RULES == TagRules(GeneralSpecFiles["internal-spec.json"].docs[1])

\* what a validator pass leaves behind: self._tags, and the AssertionError
\* it raised (<< >> for none)
Passed(tags) == [tags |-> tags, raised |-> << >>]

Asserted(tags, kind, tag, rules_name) ==
    [tags |-> tags, raised |-> <<Failure(kind, tag, rules_name)>>]

\* SpanTagValidator.span_matching_tag_validator, from the i-th comparison on
RECURSIVE MatchingFrom(_, _, _)
MatchingFrom(tags, tag_rules, i) ==
    IF i > Len(tag_rules._tag_comparisons) THEN Passed(tags)
    ELSE LET e_k == tag_rules._tag_comparisons[i].name
             e_v == tag_rules._tag_comparisons[i].value
         IN IF e_k \notin DOMAIN tags
            THEN Asserted(tags, "tag_missing_assertion", e_k, tag_rules.name)
            ELSE IF ~PyEq(e_v, tags[e_k])
            THEN Asserted(tags, "tag_mismatch_assertion", e_k, tag_rules.name)
            ELSE MatchingFrom(Del(tags, e_k), tag_rules, i + 1)

span_matching_tag_validator(tags, tag_rules) == MatchingFrom(tags, tag_rules, 1)

\* whether span_required_tag_validator deletes a validated required tag
DeletesRequired(tag_name, keep_component_tag_for_later_match) ==
    tag_name # "component" \/ ~keep_component_tag_for_later_match

\* SpanTagValidator.span_required_tag_validator, from the i-th tag on
RECURSIVE RequiredFrom(_, _, _, _)
RequiredFrom(tags, tag_rules, keep, i) ==
    IF i > Len(tag_rules._required_tags) THEN Passed(tags)
    ELSE LET tag_name == tag_rules._required_tags[i].name
         IN IF tag_name \notin DOMAIN tags
            THEN Asserted(tags, "tag_missing_assertion", tag_name, tag_rules.name)
            ELSE RequiredFrom(IF DeletesRequired(tag_name, keep)
                              THEN Del(tags, tag_name) ELSE tags,
                              tag_rules, keep, i + 1)

span_required_tag_validator(tags, tag_rules, keep) == RequiredFrom(tags, tag_rules, keep, 1)

\* SpanTagValidator.span_optional_tag_validator, from the i-th tag on
RECURSIVE OptionalFrom(_, _, _)
OptionalFrom(tags, tag_rules, i) ==
    IF i > Len(tag_rules._optional_tags) THEN tags
    ELSE LET tag_name == tag_rules._optional_tags[i].name
         IN OptionalFrom(IF tag_name \in DOMAIN tags THEN Del(tags, tag_name) ELSE tags,
                         tag_rules, i + 1)

span_optional_tag_validator(tags, tag_rules) == Passed(OptionalFrom(tags, tag_rules, 1))

\* tag_rules.validate(validator): the matching, the required and the
\* optional pass, in this order; an AssertionError ends it
tag_rules_validate(tags, tag_rules, keep) ==
    LET m == span_matching_tag_validator(tags, tag_rules)
        r == span_required_tag_validator(m.tags, tag_rules, keep)
    IN IF Len(m.raised) > 0 THEN m
       ELSE IF Len(r.raised) > 0 THEN r
       ELSE span_optional_tag_validator(r.tags, tag_rules)

\* SpanTagValidator.extract_tags
RECURSIVE validator_extract_tags(_, _, _)
validator_extract_tags(span, extracted_tags, type_span_rules_exist) ==
    IF Len(span) = 0 THEN extracted_tags
    ELSE LET e == Head(span)
         IN validator_extract_tags(Tail(span),
                IF e.d THEN validator_extract_tags(e.c, extracted_tags,
                                                   type_span_rules_exist)
                ELSE IF e.k \in IGNORED_TAGS THEN extracted_tags
                ELSE IF e.k = "type" /\ type_span_rules_exist THEN extracted_tags
                ELSE Put(extracted_tags, e.k, e.v),
                type_span_rules_exist)

\* the span_tag_rules_list SpanTagValidator.__init__ builds; an optional
\* argument is << >> (None) or <<rules>>
ValidatorPlan(type_span_rules, integration_base_span_rules, integration_root_span_rules, first_in_chunk_span_rules) ==
    <<GENERAL_SPAN_RULES, INTERNAL_SPAN_RULES>> \o first_in_chunk_span_rules
        \o type_span_rules \o integration_base_span_rules
        \o integration_root_span_rules

\* ValidatorValidateAll asking for the integration base rules alone
ValidatorValidateAllBaseOnly(integration_base_span_rules, integration_root_span_rules) ==
    Len(integration_base_span_rules) > 0

\* the validate_all_tags SpanTagValidator.__init__ sets
ValidatorValidateAll(integration_base_span_rules, integration_root_span_rules) ==
    Len(integration_base_span_rules) > 0 /\ Len(integration_root_span_rules) > 0

\* the validate_all_tags validate() leaves for a span of this type
ValidateAllForType(validate_all_tags, span_type, type_span_rules_exist) ==
    IF Truthy(span_type) /\ ~type_span_rules_exist THEN FALSE ELSE validate_all_tags

----------------------------------------------------------------------------
(* the span object: what the writes of the flatteners and the deletions of
   the passes leave of the dict the caller handed in.  A name of the code
   refers to a dict object: one inside the span, reached from it by `path`
   (the positions of the nested dicts), or one that is no part of the span. *)

InSpan(path) == [in_span |-> TRUE, path |-> path]

Apart == [in_span |-> FALSE, path |-> << >>]

\* the dict `path` leads to inside span
RECURSIVE DictAt(_, _)
DictAt(span, path) ==
    IF Len(path) = 0 THEN span ELSE DictAt(span[Head(path)].c, Tail(path))

\* span after d[k] = v on its dict d at path
RECURSIVE SetItem(_, _, _, _)
SetItem(span, path, k, v) ==
    IF Len(path) = 0
    THEN IF HasKey(span, k)
         THEN [i \in 1..Len(span) |-> IF span[i].k = k THEN Leaf(k, v) ELSE span[i]]
         ELSE Append(span, Leaf(k, v))
    ELSE [span EXCEPT ![Head(path)].c = SetItem(@, Tail(path), k, v)]

\* span after del d[k] on its dict d at path
RECURSIVE DelItem(_, _, _)
DelItem(span, path, k) ==
    IF Len(path) = 0 THEN SelectSeq(span, LAMBDA e : e.k # k)
    ELSE [span EXCEPT ![Head(path)].c = DelItem(@, Tail(path), k)]

\* span after del d[k] on the dict d that `of` names
SpanAfterDel(span, of, k) == IF of.in_span THEN DelItem(span, of.path, k) ELSE span

\* the span after a flattener went, from its i-th entry on, through the dict
\* of the span at `path`, writing every non-dict entry whose key is not in
\* `skipped` into the dict `into` names
RECURSIVE SpanAfterFlatten(_, _, _, _, _)
SpanAfterFlatten(span, path, into, skipped, i) ==
    LET data == DictAt(span, path)
    IN IF i > Len(data) THEN span
       ELSE IF data[i].d
       THEN SpanAfterFlatten(SpanAfterFlatten(span, path \o <<i>>, into, skipped, 1),
                             path, into, skipped, i + 1)
       ELSE IF data[i].k \in skipped \/ ~into.in_span
       THEN SpanAfterFlatten(span, path, into, skipped, i + 1)
       ELSE SpanAfterFlatten(SetItem(span, into.path, data[i].k, data[i].v),
                             path, into, skipped, i + 1)

\* SpanAfterUnpack with the span itself handed in as `initial`
SpanAfterUnpackIntoSpan(span) == SpanAfterFlatten(span, << >>, InSpan(<< >>), {}, 1)

\* the span after flattened_span = unpack(span): `initial` is the default
\* argument object
SpanAfterUnpack(span) == SpanAfterFlatten(span, << >>, Apart, {}, 1)

\* the span after SpanTagValidationCheck's self.extract_tags(span, {})
SpanAfterCheckExtract(span) == SpanAfterFlatten(span, << >>, Apart, IGNORED_TAGS, 1)

\* the span after SpanTagValidator's self.extract_tags(span, {})
SpanAfterValidatorExtract(span, type_span_rules_exist) ==
    SpanAfterFlatten(span, << >>, Apart,
                     IF type_span_rules_exist THEN IGNORED_TAGS \cup {"type"}
                     ELSE IGNORED_TAGS, 1)

\* the span after SpanTagChecks.check has had tag_check checked:
\* span_validator_check._tags is the dict extract_tags was handed and returned
SpanAfterCheck(span, tags, tc) ==
    IF tc.name \in DOMAIN tags THEN SpanAfterDel(span, Apart, tc.name) ELSE span

----------------------------------------------------------------------------
(* Inputs: the spans validated, and the rules handed to SpanTagValidator *)

\* the meta tags of a span that carries what its attributes call for
BaseMeta(error, component, http) ==
    <<Leaf("language", PyStr("python")), Leaf("runtime-id", PyStr("r1"))>>
    \o (IF Len(error) > 0 /\ Truthy(error[1])
        THEN <<Leaf("error.msg", PyStr("boom"))>> ELSE << >>)
    \o (IF http
        THEN <<Leaf("http.status_code", PyStr("200")),
               Leaf("span.kind", PyStr("client"))>>
        ELSE << >>)
    \o (IF component # "" THEN <<Leaf("component", PyStr(component))>> ELSE << >>)

\* a value of another type (or, for span.kind, another value) for a tag
Altered(tag) ==
    CASE tag = "language" -> PyInt(3)
      [] tag = "runtime-id" -> PyInt(7)
      [] tag = "http.status_code" -> PyInt(200)
      [] tag = "span.kind" -> PyStr("server")

\* one change to the meta tags: none, one tag dropped, one tag altered, a
\* tag no rule names added, or a tag of the first-in-chunk rules added with
\* the value its rule expects or with another
Edits(meta) ==
    {[op |-> "none", tag |-> ""], [op |-> "add", tag |-> "custom.tag"],
     [op |-> "root", tag |-> "chunk.kind"], [op |-> "leaf", tag |-> "chunk.kind"],
     [op |-> "first", tag |-> "chunk.index"], [op |-> "second", tag |-> "chunk.index"]}
    \cup {[op |-> "drop", tag |-> meta[i].k] :
            i \in {j \in 1..Len(meta) : meta[j].k # "component"}}
    \cup {[op |-> "alter", tag |-> meta[i].k] :
            i \in {j \in 1..Len(meta) :
                    meta[j].k \in {"language", "runtime-id", "http.status_code",
                                   "span.kind"}}}

Edited(meta, edit) ==
    CASE edit.op = "none" -> meta
      [] edit.op = "add" -> Append(meta, Leaf(edit.tag, PyStr("x")))
      [] edit.op = "root" -> Append(meta, Leaf(edit.tag, PyStr("root")))
      [] edit.op = "leaf" -> Append(meta, Leaf(edit.tag, PyStr("leaf")))
      [] edit.op = "first" -> Append(meta, Leaf(edit.tag, PyInt(0)))
      [] edit.op = "second" -> Append(meta, Leaf(edit.tag, PyInt(1)))
      [] edit.op = "drop" -> SelectSeq(meta, LAMBDA e : e.k # edit.tag)
      [] edit.op = "alter" ->
            [i \in 1..Len(meta) |->
                IF meta[i].k = edit.tag THEN Leaf(edit.tag, Altered(edit.tag))
                ELSE meta[i]]

\* a span: error and type are << >> (no such key) or <<value>>
Span(name, error, type, meta) ==
    <<Leaf("name", PyStr(name)), Leaf("service", PyStr("svc"))>>
    \o (IF Len(error) > 0 THEN <<Leaf("error", error[1])>> ELSE << >>)
    \o (IF Len(type) > 0 THEN <<Leaf("type", type[1])>> ELSE << >>)
    \o <<Dict("meta", meta)>>

SpanNames == {"redis.command", "redis.unusual"}

\* the error indicator of a span: absent, 0, 1, True, another integer
ErrorValues == {<< >>, <<PyInt(0)>>, <<PyInt(1)>>, <<PyBool(TRUE)>>, <<PyInt(2)>>}

TypeValues == {<< >>, <<PyStr("")>>, <<PyStr("http")>>, <<PyStr("sql")>>}

\* "" (no component tag), an indexed array file with and without a "<c>.*"
\* entry, a single-object file, and a component with no file
Components == {"", "redis", "kafka", "flask", "grpc"}

SpansOver(names, errors, types, components) ==
    UNION {UNION {{Span(n, e, t, Edited(BaseMeta(e, c, h), ed)) :
                        ed \in Edits(BaseMeta(e, c, h))} :
                  h \in BOOLEAN} :
           <<n, e, t, c>> \in names \X errors \X types \X components}

\* spans with several tag namespaces, nested up to three deep: a tag in two
\* namespaces (language, in either order), a baseline field name and the key
\* "type" inside a namespace, a namespace called like a tag
NestedSpans ==
    {<<Leaf("name", PyStr("redis.command")), Leaf("service", PyStr("svc")),
       Leaf("error", PyInt(0)), Leaf("type", PyStr("http")),
       Dict("meta", <<Leaf("language", PyStr("python")),
                      Dict("peer", <<Leaf("out.host", PyStr("h")),
                                     Leaf("service", PyStr("db"))>>)>>),
       Dict("metrics", <<Leaf("language", PyInt(3)),
                         Leaf("process_id", PyInt(7))>>)>>,
     <<Leaf("name", PyStr("redis.command")), Leaf("service", PyStr("svc")),
       Leaf("error", PyInt(0)), Leaf("type", PyStr("http")),
       Dict("metrics", <<Leaf("language", PyInt(3)),
                         Leaf("process_id", PyInt(7))>>),
       Dict("meta", <<Leaf("language", PyStr("python")),
                      Dict("peer", <<Leaf("out.host", PyStr("h")),
                                     Leaf("service", PyStr("db"))>>)>>)>>,
     <<Leaf("name", PyStr("redis.command")), Leaf("service", PyStr("svc")),
       Leaf("error", PyInt(0)), Leaf("type", PyStr("")),
       Dict("meta", <<Leaf("language", PyStr("python")),
                      Dict("runtime-id", <<Leaf("type", PyStr("uuid")),
                                           Dict("peer", <<Leaf("runtime-id", PyStr("r1")),
                                                          Leaf("span_id", PyInt(5))>>)>>)>>)>>}

\* the spans a "single" session validates
Spans == SpansOver(SpanNames, ErrorValues, TypeValues, Components) \cup NestedSpans

\* the spans SpanTagValidator.validate is called with
ValidatorSpans ==
    SpansOver({"redis.command"}, ErrorValues, TypeValues, {"", "redis"}) \cup NestedSpans

\* the spans a "repeat" session validates one after the other
RepeatSpans ==
    {Span("redis.command", <<PyInt(0)>>, << >>, BaseMeta(<<PyInt(0)>>, "", FALSE)),
     Span("redis.command", <<PyInt(0)>>, << >>,
          Edited(BaseMeta(<<PyInt(0)>>, "", FALSE), [op |-> "drop", tag |-> "language"])),
     Span("redis.command", <<PyInt(0)>>, << >>,
          Edited(BaseMeta(<<PyInt(0)>>, "", FALSE), [op |-> "alter", tag |-> "language"]))}

SessionSpans(s) == IF s = "single" THEN Spans ELSE RepeatSpans

\* the checks of a session: one, MaxChecks one after the other, or those of
\* two callers running side by side
SessionChecks(s) == IF s = "single" THEN 1 ELSE IF s = "repeat" THEN MaxChecks ELSE 2

\* the optional first-in-chunk check, supplied by the caller
\* its rules: an optional typed tag, a tag with a "value" and no "required"
\* member, and a required tag whose "value" is 0
FirstInChunkDoc ==
    Doc("first_in_chunk", PyNone,
        <<Rule("process_id", PyBool(FALSE), PyStr("integer"), PyNone),
          Rule("chunk.kind", PyNone, PyStr("string"), PyStr("root")),
          Rule("chunk.index", PyBool(TRUE), PyNone, PyInt(0))>>)

FirstInChunkChecks ==
    {<< >>,
     <<SpanTagChecks(FirstInChunkDoc.name, FirstInChunkDoc.tags, FirstInChunkDoc.type)>>}

\* the optional rules SpanTagValidator is constructed with
TypeRulesArgs == {<< >>, <<TagRules(GeneralSpecFiles["http-spec.json"].docs[1])>>}

IntegrationBaseDoc ==
    Doc("integration_base", PyNone,
        <<Rule("component", PyBool(TRUE), PyStr("string"), PyNone)>>)

IntegrationRootDoc ==
    Doc("integration_root", PyNone,
        <<Rule("component", PyBool(TRUE), PyStr("string"), PyNone)>>)

IntegrationBaseArgs == {<< >>, <<TagRules(IntegrationBaseDoc)>>}

IntegrationRootArgs == {<< >>, <<TagRules(IntegrationRootDoc)>>}

FirstInChunkArgs == {<< >>, <<TagRules(FirstInChunkDoc)>>}

----------------------------------------------------------------------------
(* State *)

\* a SpanTagValidationCheck not constructed yet
NoCheck ==
    [pc |-> "new", span |-> << >>, type_span_check |-> << >>,
     integration_span_check |-> << >>, first_in_chunk_span_check |-> << >>,
     span_tags_checks |-> << >>, validate_all_tags |-> FALSE, tags |-> EmptyDict,
     li |-> 0, ri |-> 0, failures |-> << >>, exc |-> "", at |-> "", outcome |-> ""]

NoFound == [pc |-> "none", run |-> 0, span |-> << >>, checks |-> EmptyDict]

\* no SpanTagValidator constructed yet
NoValidator ==
    [pc |-> "none", type_span_rules |-> << >>, integration_base_span_rules |-> << >>,
     integration_root_span_rules |-> << >>, first_in_chunk_span_rules |-> << >>,
     span_tag_rules_list |-> << >>, type_span_rules_exist |-> FALSE,
     keep_component_tag_for_later_match |-> FALSE, validate_all_tags |-> FALSE,
     span |-> << >>, tags |-> EmptyDict, li |-> 0, raised |-> << >>, exc |-> "",
     calls |-> << >>]

CheckRuns == 1..MaxChecks

Init ==
    /\ session \in {"single", "repeat", "concurrent"}
    /\ integration_specs = LoaderInit(IntegrationSpecFiles)
    /\ unpack_initial = EmptyDict
    /\ found = NoFound
    /\ chk = [r \in CheckRuns |-> NoCheck]
    /\ val = NoValidator

Ended(c) == c.pc \in {"done", "raised"}

----------------------------------------------------------------------------
(* SpanTagValidationCheck entry point *)

\* span_tag_check_loader.find_span_tag_check(span), for the r-th check
Find(r) ==
    /\ val.pc = "none"
    /\ found.pc = "none"
    /\ r <= SessionChecks(session)
    /\ chk[r].pc = "new"
    /\ (session # "concurrent" /\ r > 1) => Ended(chk[r - 1])
    /\ \E span \in SessionSpans(session) :
        LET res == find_span_tag_check(integration_specs, span)
        IN IF res.exc # ""
           THEN /\ chk' = [chk EXCEPT ![r] =
                             [@ EXCEPT !.pc = "raised", !.exc = res.exc,
                                       !.at = "find_span_tag_check", !.span = span]]
                /\ found' = found
           ELSE /\ found' = [pc |-> "ok", run |-> r, span |-> span, checks |-> res.value]
                /\ chk' = chk
    /\ UNCHANGED <<session, integration_specs, unpack_initial, val>>

\* SpanTagValidationCheck(span, **span_checks, first_in_chunk_span_check)
Construct(r) ==
    /\ found.pc = "ok"
    /\ found.run = r
    /\ \E first_in_chunk_span_check \in FirstInChunkChecks :
       LET span == found.span
           general == load_span_tag_check(GeneralSpecFiles, "general-spec.json", << >>)
           error == load_span_tag_check(GeneralSpecFiles, "error-spec.json", << >>)
           internal == load_span_tag_check(GeneralSpecFiles, "internal-spec.json", << >>)
           type_span_check ==
               IF "type_span_check" \in DOMAIN found.checks
               THEN <<found.checks["type_span_check"]>> ELSE << >>
           integration_span_check ==
               IF "integration_span_check" \in DOMAIN found.checks
               THEN <<found.checks["integration_span_check"]>> ELSE << >>
       IN IF general.exc # "" \/ error.exc # "" \/ internal.exc # ""
          THEN chk' = [chk EXCEPT ![r] =
                        [@ EXCEPT !.pc = "raised", !.exc = "FileNotFoundError",
                                  !.at = "__init__", !.span = span]]
          ELSE chk' = [chk EXCEPT ![r] =
                        [pc |-> "checking",
                         span |-> SpanAfterCheckExtract(span),
                         type_span_check |-> type_span_check,
                         integration_span_check |-> integration_span_check,
                         first_in_chunk_span_check |-> first_in_chunk_span_check,
                         span_tags_checks |->
                            CheckPlan(span, general.value, error.value, internal.value,
                                      type_span_check, integration_span_check,
                                      first_in_chunk_span_check),
                         validate_all_tags |->
                            CheckValidateAll(span, integration_span_check),
                         tags |-> check_extract_tags(span, EmptyDict),
                         li |-> 1, ri |-> 1, failures |-> << >>, exc |-> "",
                         at |-> "", outcome |-> ""]]
    /\ found' = NoFound
    /\ UNCHANGED <<session, integration_specs, unpack_initial, val>>

\* one iteration of the loop of SpanTagChecks.check, run with no other
\* caller in between
CheckTag(r) ==
    /\ session # "concurrent"
    /\ chk[r].pc = "checking"
    /\ chk[r].li <= Len(chk[r].span_tags_checks)
    /\ chk[r].ri <= Len(chk[r].span_tags_checks[chk[r].li].tag_checks)
    /\ LET c == chk[r]
           span_tags_check == c.span_tags_checks[c.li]
           tag_check == span_tags_check.tag_checks[c.ri]
           res == TagCheck_check(tag_check, c.span, span_tags_check.name, unpack_initial)
       IN /\ unpack_initial' = res.flat
          /\ IF res.exc # ""
             THEN chk' = [chk EXCEPT ![r] =
                            [@ EXCEPT !.pc = "raised", !.exc = res.exc,
                                      !.at = "check",
                                      !.span = SpanAfterUnpack(@),
                                      !.failures = @ \o res.fails]]
             ELSE chk' = [chk EXCEPT ![r] =
                            [@ EXCEPT !.failures = @ \o res.fails,
                                      !.span = SpanAfterCheck(SpanAfterUnpack(@),
                                                              c.tags, tag_check),
                                      !.tags = TagsAfterCheck(@, tag_check),
                                      !.ri = @ + 1]]
    /\ UNCHANGED <<session, integration_specs, found, val>>

\* with another caller running: TagCheck.check up to the return of
\* unpack(span), which wrote the span's entries into the one default
\* argument object all callers share
Unpack(r) ==
    /\ session = "concurrent"
    /\ chk[r].pc = "checking"
    /\ chk[r].li <= Len(chk[r].span_tags_checks)
    /\ chk[r].ri <= Len(chk[r].span_tags_checks[chk[r].li].tag_checks)
    /\ unpack_initial' = unpack(chk[r].span, unpack_initial)
    /\ chk' = [chk EXCEPT ![r] = [@ EXCEPT !.pc = "unpacked",
                                            !.span = SpanAfterUnpack(@)]]
    /\ UNCHANGED <<session, integration_specs, found, val>>

\* with another caller running: the rest of the iteration; flattened_span
\* is the shared object as the callers have left it by now
Judge(r) ==
    /\ chk[r].pc = "unpacked"
    /\ LET c == chk[r]
           span_tags_check == c.span_tags_checks[c.li]
           tag_check == span_tags_check.tag_checks[c.ri]
           res == TagCheck_judge(tag_check, span_tags_check.name, unpack_initial)
       IN IF res.exc # ""
          THEN chk' = [chk EXCEPT ![r] =
                         [@ EXCEPT !.pc = "raised", !.exc = res.exc,
                                   !.at = "check",
                                   !.failures = @ \o res.fails]]
          ELSE chk' = [chk EXCEPT ![r] =
                         [@ EXCEPT !.pc = "checking",
                                   !.failures = @ \o res.fails,
                                   !.span = SpanAfterCheck(@, c.tags, tag_check),
                                   !.tags = TagsAfterCheck(@, tag_check),
                                   !.ri = @ + 1]]
    /\ UNCHANGED <<session, integration_specs, unpack_initial, found, val>>

\* SpanTagChecks.check returns: the loop of SpanTagValidationCheck.check
\* goes on to the next span_tags_check
NextCheck(r) ==
    /\ chk[r].pc = "checking"
    /\ chk[r].li <= Len(chk[r].span_tags_checks)
    /\ chk[r].ri > Len(chk[r].span_tags_checks[chk[r].li].tag_checks)
    /\ chk' = [chk EXCEPT ![r] = [@ EXCEPT !.li = @ + 1, !.ri = 1]]
    /\ UNCHANGED <<session, integration_specs, unpack_initial, found, val>>

\* SpanTagValidationCheck.check after its loop
Finish(r) ==
    /\ chk[r].pc = "checking"
    /\ chk[r].li > Len(chk[r].span_tags_checks)
    /\ LET c == chk[r]
           outcome == CheckOutcome(c.tags, c.validate_all_tags)
           last == c.span_tags_checks[Len(c.span_tags_checks)].name
       IN chk' = [chk EXCEPT ![r] =
                    [@ EXCEPT !.pc = "done",
                              !.outcome = outcome,
                              !.failures =
                                 IF outcome = "FAIL"
                                 THEN Append(@, [kind |-> "UNVALIDATED-TAGS-ERROR",
                                                 tag |-> "", check |-> last,
                                                 left |-> DOMAIN c.tags])
                                 ELSE @]]
    /\ UNCHANGED <<session, integration_specs, unpack_initial, found, val>>

----------------------------------------------------------------------------
(* SpanTagValidator entry point *)

\* SpanTagValidator(type_span_rules, integration_base_span_rules,
\*                  integration_root_span_rules, first_in_chunk_span_rules)
NewValidator ==
    /\ session = "single"
    /\ val.pc = "none"
    /\ found.pc = "none"
    /\ chk[1].pc = "new"
    /\ \E type_span_rules \in TypeRulesArgs,
          integration_base_span_rules \in IntegrationBaseArgs,
          integration_root_span_rules \in IntegrationRootArgs,
          first_in_chunk_span_rules \in FirstInChunkArgs :
       val' = [NoValidator EXCEPT
                !.pc = "idle",
                !.type_span_rules = type_span_rules,
                !.integration_base_span_rules = integration_base_span_rules,
                !.integration_root_span_rules = integration_root_span_rules,
                !.first_in_chunk_span_rules = first_in_chunk_span_rules,
                !.span_tag_rules_list =
                    ValidatorPlan(type_span_rules, integration_base_span_rules,
                                  integration_root_span_rules,
                                  first_in_chunk_span_rules),
                !.type_span_rules_exist = Len(type_span_rules) > 0,
                !.keep_component_tag_for_later_match =
                    Len(integration_base_span_rules) > 0,
                !.validate_all_tags =
                    ValidatorValidateAll(integration_base_span_rules,
                                         integration_root_span_rules)]
    /\ UNCHANGED <<session, integration_specs, unpack_initial, found, chk>>

\* what one validate() call did, kept once it has returned or raised
Call(v) ==
    [span |-> v.span, plan |-> v.span_tag_rules_list,
     validate_all_tags |-> v.validate_all_tags, tags |-> v.tags, li |-> v.li,
     raised |-> v.raised, exc |-> v.exc]

Returns(v) == [v EXCEPT !.calls = Append(@, Call(v))]

\* the span_tag_rules_list validate() goes through for a span
PlanForSpan(span_tag_rules_list, span) ==
    IF Truthy(GetVal(span, "error", PyNone))
    THEN Insert1(span_tag_rules_list, ERROR_SPAN_RULES)
    ELSE span_tag_rules_list

\* SpanTagValidator.validate(span) up to its loop; a validator that has
\* validated a span is handed the same span again
Validate ==
    /\ val.pc \in {"idle", "done", "raised"}
    /\ Len(val.calls) < MaxValidates
    /\ \E span \in (IF Len(val.calls) > 0 THEN {val.span} ELSE ValidatorSpans) :
       LET v0 == [val EXCEPT !.span = span, !.li = 0, !.raised = << >>, !.exc = ""]
       IN IF ~HasKey(span, "error")
          THEN val' = Returns([v0 EXCEPT !.pc = "raised", !.exc = "KeyError"])
          ELSE LET v1 == [v0 EXCEPT !.span_tag_rules_list = PlanForSpan(@, span)]
               IN IF ~HasKey(span, "type")
                  THEN val' = Returns([v1 EXCEPT !.pc = "raised", !.exc = "KeyError"])
                  ELSE val' = [v1 EXCEPT
                                !.pc = "validating",
                                !.span = SpanAfterValidatorExtract(
                                            span, v1.type_span_rules_exist),
                                !.validate_all_tags =
                                    ValidateAllForType(@, GetVal(span, "type", PyNone),
                                                       v1.type_span_rules_exist),
                                !.tags = validator_extract_tags(
                                            span, EmptyDict, v1.type_span_rules_exist),
                                !.li = 1]
    /\ UNCHANGED <<session, integration_specs, unpack_initial, found, chk>>

\* one iteration of the loop of validate(): tag_rules.validate(self)
ValidateLayer ==
    /\ val.pc = "validating"
    /\ val.li <= Len(val.span_tag_rules_list)
    /\ LET res == tag_rules_validate(val.tags, val.span_tag_rules_list[val.li],
                                     val.keep_component_tag_for_later_match)
       IN IF Len(res.raised) > 0
          THEN val' = Returns([val EXCEPT !.pc = "raised", !.exc = "AssertionError",
                                          !.raised = res.raised, !.tags = res.tags])
          ELSE val' = [val EXCEPT !.tags = res.tags, !.li = @ + 1]
    /\ UNCHANGED <<session, integration_specs, unpack_initial, found, chk>>

\* validate() after its loop
ValidateDone ==
    /\ val.pc = "validating"
    /\ val.li > Len(val.span_tag_rules_list)
    /\ val' = Returns([val EXCEPT !.pc = "done"])
    /\ UNCHANGED <<session, integration_specs, unpack_initial, found, chk>>

----------------------------------------------------------------------------

Next ==
    \/ \E r \in CheckRuns : Find(r)
    \/ \E r \in CheckRuns : Construct(r)
    \/ \E r \in CheckRuns : CheckTag(r)
    \/ \E r \in CheckRuns : Unpack(r)
    \/ \E r \in CheckRuns : Judge(r)
    \/ \E r \in CheckRuns : NextCheck(r)
    \/ \E r \in CheckRuns : Finish(r)
    \/ NewValidator
    \/ Validate
    \/ ValidateLayer
    \/ ValidateDone

Spec == Init /\ [][Next]_vars

----------------------------------------------------------------------------
(* Properties *)

\* the SpanTagValidationCheck objects that were constructed
Constructed(r) == chk[r].pc \in {"checking", "unpacked", "done"} \/ chk[r].at = "check"

\* validate() has got past its preamble: the plan and validate_all_tags
\* of the current call are set
InValidate == val.pc \in {"validating", "done"} \/ (val.pc = "raised" /\ val.li > 0)

\* the failures the tag checks recorded (all but the UNVALIDATED-TAGS-ERROR
\* of the check itself)
TagFailures(c) == SelectSeq(c.failures, LAMBDA f : f.kind # "UNVALIDATED-TAGS-ERROR")

\* the position of the rules called `name` in a list, 0 when absent
PositionOf(list, name) ==
    IF \E i \in 1..Len(list) : list[i].name = name
    THEN CHOOSE i \in 1..Len(list) : list[i].name = name
    ELSE 0

\* C1: validation never aborts early: every run that has entered its loop
\* over the layers ends only after the last rule of the last layer, also
\* when a tag is missing or mismatching.
C1_NeverAbortsEarly ==
    /\ \A r \in CheckRuns :
        (Ended(chk[r]) /\ Len(chk[r].span_tags_checks) > 0)
            => chk[r].li > Len(chk[r].span_tags_checks)
    /\ (val.pc \in {"done", "raised"} /\ val.li > 0)
            => val.li > Len(val.span_tag_rules_list)

\* the verdict the outcome resolver is to give
Verdict(failures, leftover, validate_all) ==
    IF Len(failures) > 0 THEN "FAIL"
    ELSE IF Cardinality(DOMAIN leftover) > 0
         THEN IF validate_all THEN "FAIL" ELSE "WARN"
         ELSE "PASS"

\* C2: after all layers have run the verdict is FAIL when a failure was
\* recorded; else FAIL with an UNVALIDATED-TAGS failure listing every
\* leftover tag when tags are left and validate_all_tags is set; else WARN
\* when tags are left; else PASS.
C2_VerdictOfFailuresAndLeftover ==
    \A r \in CheckRuns :
        chk[r].pc = "done" =>
            /\ chk[r].outcome =
                Verdict(TagFailures(chk[r]), chk[r].tags, chk[r].validate_all_tags)
            /\ (Len(TagFailures(chk[r])) = 0 /\ chk[r].outcome = "FAIL") =>
                    /\ Len(chk[r].failures) = 1
                    /\ chk[r].failures[1].kind = "UNVALIDATED-TAGS-ERROR"
                    /\ chk[r].failures[1].left = DOMAIN chk[r].tags

\* the span's own tags, as unpack writes them into an empty dict
OwnTags(span) == unpack(span, EmptyDict)

\* a rule is satisfied by the tags `flat`
Satisfied(tc, flat) ==
    IF tc.value # PyNone
    THEN tc.name \in DOMAIN flat /\ PyEq(flat[tc.name], tc.value)
    ELSE /\ Truthy(tc.required) => tc.name \in DOMAIN flat
         /\ (tc.name \in DOMAIN flat /\ Truthy(tc.val_type)) =>
                flat[tc.name].ty = string_to_type_map[tc.val_type.s]

\* the rules of a plan, as <<layer, rule>> positions
RulesOf(plan) ==
    UNION {{<<i, j>> : j \in 1..Len(plan[i].tag_checks)} : i \in 1..Len(plan)}

\* the required (or exact-match) rules of the plan whose tag the span lacks
AbsentRequired(plan, flat) ==
    {p \in RulesOf(plan) :
        LET tc == plan[p[1]].tag_checks[p[2]]
        IN (Truthy(tc.required) \/ tc.value # PyNone) /\ tc.name \notin DOMAIN flat}

\* the span satisfies every rule of its plan but one, a required or
\* exact-match rule whose tag it lacks
OneRequiredTagAbsent(c) ==
    LET flat == OwnTags(c.span)
        absent == AbsentRequired(c.span_tags_checks, flat)
    IN /\ Cardinality(absent) = 1
       /\ \A p \in RulesOf(c.span_tags_checks) \ absent :
            Satisfied(c.span_tags_checks[p[1]].tag_checks[p[2]], flat)

\* C3: a span that satisfies all rules except that exactly one required
\* tag is absent is validated to completion, with verdict FAIL and exactly
\* one recorded failure, a REQUIRED-TAG-ERROR naming the absent tag; no
\* exception surfaces.
C3_OneMissingTagOneFailure ==
    \A r \in CheckRuns :
        (Ended(chk[r]) /\ Constructed(r) /\ OneRequiredTagAbsent(chk[r])) =>
            /\ chk[r].pc = "done"
            /\ chk[r].outcome = "FAIL"
            /\ Len(chk[r].failures) = 1
            /\ chk[r].failures[1].kind = "REQUIRED-TAG-ERROR"
            /\ \E p \in AbsentRequired(chk[r].span_tags_checks, OwnTags(chk[r].span)) :
                chk[r].failures[1].tag =
                    chk[r].span_tags_checks[p[1]].tag_checks[p[2]].name

C5_NoTypeLayerNoValidateAll ==
    /\ \A r \in CheckRuns :
        (/\ Constructed(r)
         /\ Truthy(GetVal(chk[r].span, "type", PyNone))
         /\ Len(chk[r].type_span_check) = 0) =>
            /\ ~chk[r].validate_all_tags
            /\ \A i \in 1..Len(chk[r].failures) :
                    chk[r].failures[i].kind # "UNVALIDATED-TAGS-ERROR"
    /\ (/\ InValidate
        /\ Truthy(GetVal(val.span, "type", PyNone))
        /\ Len(val.type_span_rules) = 0) => ~val.validate_all_tags

\* C6: an empty type does not suppress validate_all_tags: a span of type
\* "" whose plan holds the type layer and the integration layers is
\* validated with validate_all_tags set.
C6_EmptyTypeKeepsValidateAll ==
    /\ \A r \in CheckRuns :
        (/\ Constructed(r)
         /\ GetVal(chk[r].span, "type", PyNone) = PyStr("")
         /\ Len(chk[r].type_span_check) > 0
         /\ Len(chk[r].integration_span_check) > 0) => chk[r].validate_all_tags
    /\ (/\ InValidate
        /\ GetVal(val.span, "type", PyNone) = PyStr("")
        /\ Len(val.type_span_rules) > 0
        /\ Len(val.integration_base_span_rules) > 0
        /\ Len(val.integration_root_span_rules) > 0) => val.validate_all_tags

\* both integration rules are in the validator's plan and the span carries
\* the component tag both of them require
BaseAndRootOnComponent ==
    /\ val.pc = "validating"
    /\ PositionOf(val.span_tag_rules_list, "integration_base") > 0
    /\ PositionOf(val.span_tag_rules_list, "integration_root") > 0
    /\ "component" \in DOMAIN OwnTags(val.span)

\* C7: with integration base and integration root rules that both require
\* `component`, the tag is still in the working tags once the base rules
\* have run and is no longer there once the root rules have run.
C7_ComponentRetainedOnce ==
    BaseAndRootOnComponent =>
        /\ val.li = PositionOf(val.span_tag_rules_list, "integration_base") + 1
                => "component" \in DOMAIN val.tags
        /\ val.li = PositionOf(val.span_tag_rules_list, "integration_root") + 1
                => "component" \notin DOMAIN val.tags

\* the component and the name find_span_tag_check reads from a span
ComponentOf(span) == GetVal(GetDict(span, "meta"), "component", PyStr("")).s

NameOf(span) == GetVal(span, "name", PyNone).s

\* the key of the integration index a span of a known component is to be
\* looked up under: its exact name when indexed, else "<component>.*"
LookupKey(span) ==
    IF NameOf(span) \in DOMAIN integration_specs[ComponentOf(span)]
    THEN NameOf(span)
    ELSE ComponentOf(span) \o ".*"

\* the check made of the document at a position of a component's file
CheckAt(component, position) ==
    LET doc == IntegrationSpecFiles[component \o "-spec.json"].docs[position + 1]
    IN SpanTagChecks(doc.name, doc.tags, doc.type)

\* C8: for a span of an indexed component, the integration check that is
\* resolved is the one at the position indexed under the span's exact
\* name when there is such an entry, and else the one at the position
\* indexed under "<component>.*"; it is the document of that name.
C8_WildcardFallback ==
    (/\ found.pc = "ok"
     /\ ComponentOf(found.span) \in DOMAIN integration_specs
     /\ LookupKey(found.span) \in DOMAIN integration_specs[ComponentOf(found.span)]) =>
        /\ "integration_span_check" \in DOMAIN found.checks
        /\ found.checks["integration_span_check"] =
                CheckAt(ComponentOf(found.span),
                        integration_specs[ComponentOf(found.span)][LookupKey(found.span)])
        /\ found.checks["integration_span_check"].name = LookupKey(found.span)

\* C8 witness: the span redis.unusual of component redis resolved, by the
\* index {redis.command: 0, redis.*: 1}, to the check at position 1
C8_Witness ==
    /\ found.pc = "ok"
    /\ NameOf(found.span) = "redis.unusual"
    /\ ComponentOf(found.span) = "redis"
    /\ integration_specs["redis"] = ("redis.command" :> 0 @@ "redis.*" :> 1)
    /\ "integration_span_check" \in DOMAIN found.checks
    /\ found.checks["integration_span_check"] = CheckAt("redis", 1)

\* C9: an integration or type lookup that misses is not an error:
\* find_span_tag_check returns for every span.
C9_LookupMissIsNoError ==
    \A r \in CheckRuns : chk[r].at # "find_span_tag_check"

\* C10: validating the same span again with the same validator goes
\* through the same plan and gives the same report: every validate() call
\* that reaches its loop leaves the same plan, leftover tags, failure and
\* validate_all_tags.
C10_Idempotent ==
    \A i, j \in 1..Len(val.calls) :
        (val.calls[i].li > 0 /\ val.calls[j].li > 0) => val.calls[i] = val.calls[j]

----------------------------------------------------------------------------
(* Claims C11 to C20 *)

\* the rule at position p = <<layer, rule>> of the plan of check c has been
\* evaluated: SpanTagChecks.check has called its TagCheck.check
Evaluated(c, p) ==
    \/ p[1] < c.li
    \/ /\ p[1] = c.li
       /\ \/ p[2] < c.ri
          \/ c.pc = "raised" /\ c.at = "check" /\ p[2] = c.ri

\* the rules of the plan marked required whose tag the span does not carry
RequiredAbsent(plan, span) ==
    {p \in RulesOf(plan) :
        /\ Truthy(plan[p[1]].tag_checks[p[2]].required)
        /\ plan[p[1]].tag_checks[p[2]].name \notin DOMAIN OwnTags(span)}

\* C11: no state persists between spans: whatever spans were validated
\* before, every evaluated required rule whose tag the current span does not
\* carry has recorded a REQUIRED-TAG-ERROR for that tag.
C11_NoStateBetweenSpans ==
    \A r \in CheckRuns :
        Constructed(r) =>
            \A p \in RequiredAbsent(chk[r].span_tags_checks, chk[r].span) :
                Evaluated(chk[r], p) =>
                    \E i \in 1..Len(chk[r].failures) :
                        /\ chk[r].failures[i].kind = "REQUIRED-TAG-ERROR"
                        /\ chk[r].failures[i].tag =
                            chk[r].span_tags_checks[p[1]].tag_checks[p[2]].name
                        /\ chk[r].failures[i].check = chk[r].span_tags_checks[p[1]].name

\* the first-in-chunk layer sits at a position of the plan whose predecessor
\* is the layer called `before`
FirstInChunkFollows(plan, before) ==
    LET i == PositionOf(plan, "first_in_chunk")
    IN i > 1 /\ plan[i - 1].name = before

\* C12 as claimed: a supplied first-in-chunk layer is in the plan immediately
\* after the general layer, before the internal layer.
C12_FirstInChunkAfterGeneral ==
    /\ \A r \in CheckRuns :
        (Constructed(r) /\ Len(chk[r].first_in_chunk_span_check) > 0)
            => FirstInChunkFollows(chk[r].span_tags_checks, "general")
    /\ (val.pc # "none" /\ Len(val.first_in_chunk_span_rules) > 0)
            => FirstInChunkFollows(val.span_tag_rules_list, "general")

\* C12 amended: a supplied first-in-chunk layer is in the plan immediately
\* after the internal layer, before the type and the integration layers,
\* whatever other layers the plan holds; it is the layer that was supplied,
\* and a plan built without one holds none.
C12_FirstInChunkAfterInternal ==
    /\ \A r \in CheckRuns :
        Constructed(r) =>
            IF Len(chk[r].first_in_chunk_span_check) > 0
            THEN /\ FirstInChunkFollows(chk[r].span_tags_checks, "internal")
                 /\ chk[r].span_tags_checks[PositionOf(chk[r].span_tags_checks,
                                                       "first_in_chunk")]
                        = chk[r].first_in_chunk_span_check[1]
                 /\ PositionOf(chk[r].span_tags_checks, "first_in_chunk")
                        + Len(chk[r].type_span_check)
                        + Len(chk[r].integration_span_check)
                        = Len(chk[r].span_tags_checks)
            ELSE PositionOf(chk[r].span_tags_checks, "first_in_chunk") = 0
    /\ val.pc # "none" =>
            IF Len(val.first_in_chunk_span_rules) > 0
            THEN /\ FirstInChunkFollows(val.span_tag_rules_list, "internal")
                 /\ val.span_tag_rules_list[PositionOf(val.span_tag_rules_list,
                                                       "first_in_chunk")]
                        = val.first_in_chunk_span_rules[1]
                 /\ PositionOf(val.span_tag_rules_list, "first_in_chunk")
                        + Len(val.type_span_rules)
                        + Len(val.integration_base_span_rules)
                        + Len(val.integration_root_span_rules)
                        = Len(val.span_tag_rules_list)
            ELSE PositionOf(val.span_tag_rules_list, "first_in_chunk") = 0

\* a check was constructed with a first-in-chunk check for an error span of
\* a component with a typed integration check: all six layers are in the plan
C12_Witness ==
    \E r \in CheckRuns :
        /\ Constructed(r)
        /\ Len(chk[r].first_in_chunk_span_check) > 0
        /\ Len(chk[r].type_span_check) > 0
        /\ Len(chk[r].integration_span_check) > 0
        /\ Len(chk[r].span_tags_checks) = 6

\* the span's error indicator is true
ErrorIndicator(span) == Truthy(GetVal(span, "error", PyNone))

\* the error layer is in the plan exactly when `wanted`, and then second in
\* it, right after the general layer
ErrorLayerWhen(plan, wanted) ==
    /\ PositionOf(plan, "error") # 0 <=> wanted
    /\ PositionOf(plan, "error") # 0 =>
            /\ plan[1].name = "general"
            /\ plan[2].name = "error"

\* C13: the error layer is in the plan exactly when the span's error
\* indicator is true, then right after the general layer; the two entry
\* points decide this alike for every error indicator (absent, 0, 1, True,
\* another integer): SpanTagValidationCheck's plan holds the error layer
\* exactly when SpanTagValidator's plan for the same span would, and
\* SpanTagValidator does not fail on a span without the indicator; an
\* evaluated error layer whose required tag the span lacks has recorded a
\* missing-tag failure.
C13_ErrorLayerBothEntryPoints ==
    /\ \A r \in CheckRuns :
        Constructed(r) =>
            /\ ErrorLayerWhen(chk[r].span_tags_checks, ErrorIndicator(chk[r].span))
            /\ PositionOf(chk[r].span_tags_checks, "error") # 0
                <=> PositionOf(PlanForSpan(<<GENERAL_SPAN_RULES, INTERNAL_SPAN_RULES>>,
                                           chk[r].span), "error") # 0
            /\ \A p \in RequiredAbsent(chk[r].span_tags_checks, chk[r].span) :
                (chk[r].span_tags_checks[p[1]].name = "error" /\ Evaluated(chk[r], p))
                    => \E i \in 1..Len(chk[r].failures) :
                        /\ chk[r].failures[i].kind = "REQUIRED-TAG-ERROR"
                        /\ chk[r].failures[i].check = "error"
    /\ Len(val.span) > 0 =>
            /\ HasKey(val.span, "error") \/ val.exc # "KeyError"
            /\ HasKey(val.span, "error") =>
                    ErrorLayerWhen(val.span_tag_rules_list, ErrorIndicator(val.span))
            /\ ( /\ InValidate
                 /\ val.span_tag_rules_list[2].name = "error"
                 /\ "error.msg" \notin DOMAIN OwnTags(val.span)
                 /\ val.li > 2 \/ val.pc = "raised" )
                    => /\ Len(val.raised) = 1
                       /\ val.raised[1].kind = "tag_missing_assertion"

\* a span with no error indicator, no type attribute and no component
PlainSpan(span) ==
    /\ ~HasKey(span, "error")
    /\ ~HasKey(span, "type")
    /\ ComponentOf(span) = ""

\* the names of the layers of a plan, in order
LayerNames(plan) == [i \in 1..Len(plan) |-> plan[i].name]

\* the tags of a span that no rule of the general and the internal layer
\* names
Unnamed(span) ==
    DOMAIN check_extract_tags(span, EmptyDict) \ {"language", "runtime-id"}

\* C14: for a span with no error indicator, no type attribute and no
\* component (and no optional layer supplied) validation runs to completion,
\* the plan is the general layer followed by the internal layer,
\* validate_all_tags is false, every tag the two layers do not name is left
\* over, and the outcome is WARN when tags are left over and never FAIL.
C14_PlainSpanPlan ==
    /\ \A r \in CheckRuns :
        ( /\ Len(chk[r].span) > 0
          /\ PlainSpan(chk[r].span)
          /\ Len(chk[r].first_in_chunk_span_check) = 0 ) =>
            /\ chk[r].pc # "raised"
            /\ Constructed(r) =>
                /\ LayerNames(chk[r].span_tags_checks) = <<"general", "internal">>
                /\ ~chk[r].validate_all_tags
            /\ chk[r].pc = "done" =>
                /\ Unnamed(chk[r].span) \subseteq DOMAIN chk[r].tags
                /\ chk[r].outcome # "FAIL"
                /\ Unnamed(chk[r].span) # {} => chk[r].outcome = "WARN"
    /\ ( /\ Len(val.span) > 0
         /\ PlainSpan(val.span)
         /\ Len(val.span_tag_rules_list) > 0
         /\ Len(val.type_span_rules) + Len(val.integration_base_span_rules)
                + Len(val.integration_root_span_rules)
                + Len(val.first_in_chunk_span_rules) = 0 ) =>
            /\ val.pc # "raised"
            /\ LayerNames(val.span_tag_rules_list) = <<"general", "internal">>
            /\ ~val.validate_all_tags
            /\ val.pc = "done" => Unnamed(val.span) \subseteq DOMAIN val.tags

\* the tags of the span's tag namespaces
MetaTags(span) == DOMAIN unpack(GetDict(span, "meta"), EmptyDict)

\* the tags the rules of a SpanTagValidationCheck plan name
NamedByChecks(plan) ==
    {plan[p[1]].tag_checks[p[2]].name : p \in RulesOf(plan)}

\* the tags the rules of a SpanTagValidator plan name
NamedByRules(plan) ==
    UNION {{plan[i]._tag_comparisons[j].name : j \in 1..Len(plan[i]._tag_comparisons)}
           \cup {plan[i]._required_tags[j].name : j \in 1..Len(plan[i]._required_tags)}
           \cup {plan[i]._optional_tags[j].name : j \in 1..Len(plan[i]._optional_tags)} :
           i \in 1..Len(plan)}

\* the span of check c carries a type attribute, its type layer was resolved,
\* it satisfies every rule of the plan and carries no tag but those the
\* rules name
TypedSpanCovered(c) ==
    /\ HasKey(c.span, "type")
    /\ Len(c.type_span_check) > 0
    /\ \A p \in RulesOf(c.span_tags_checks) :
            Satisfied(c.span_tags_checks[p[1]].tag_checks[p[2]], OwnTags(c.span))
    /\ MetaTags(c.span) \subseteq NamedByChecks(c.span_tags_checks)

\* C15: a span with a type attribute whose tags are exactly those the rules
\* of its plan (type layer included) call for ends with the success outcome
\* and an empty working tag set: its top-level type and error fields are not
\* left over.
C15_TypedSpanPasses ==
    /\ \A r \in CheckRuns :
        (chk[r].pc = "done" /\ TypedSpanCovered(chk[r])) =>
            /\ chk[r].outcome = "PASS"
            /\ DOMAIN chk[r].tags = {}
    /\ ( /\ val.pc = "done"
         /\ Len(val.type_span_rules) > 0
         /\ MetaTags(val.span) \subseteq NamedByRules(val.span_tag_rules_list) )
            => DOMAIN val.tags = {}

\* the failures check c holds of one kind for the rule at position p
FailuresOf(c, p, kind) ==
    {i \in 1..Len(c.failures) :
        /\ c.failures[i].kind = kind
        /\ c.failures[i].tag = c.span_tags_checks[p[1]].tag_checks[p[2]].name
        /\ c.failures[i].check = c.span_tags_checks[p[1]].name}

\* C16: every evaluated rule that has a "value" is an exact-match, required
\* rule, whatever its "required" member and whatever the value (0, False and
\* "" included): with the tag absent it has recorded a REQUIRED-TAG-ERROR,
\* with the tag present under another value a MATCHING-TAG-ERROR, and in no
\* case a TAG-VALUE-TYPE-ERROR.
C16_ValueRuleIsExactMatch ==
    \A r \in CheckRuns :
        (session = "single" /\ Constructed(r)) =>
            \A p \in RulesOf(chk[r].span_tags_checks) :
                LET tc == chk[r].span_tags_checks[p[1]].tag_checks[p[2]]
                    flat == OwnTags(chk[r].span)
                IN (tc.value # PyNone /\ Evaluated(chk[r], p)) =>
                    /\ tc.name \notin DOMAIN flat
                        => FailuresOf(chk[r], p, "REQUIRED-TAG-ERROR") # {}
                    /\ (tc.name \in DOMAIN flat /\ ~PyEq(flat[tc.name], tc.value))
                        => FailuresOf(chk[r], p, "MATCHING-TAG-ERROR") # {}
                    /\ FailuresOf(chk[r], p, "TAG-VALUE-TYPE-ERROR") = {}

\* C17: a tag is removed from the working tag set by an exact-match rule
\* only when the rule succeeds: once such a rule has been evaluated on a tag
\* the span carries with a value other than the expected one, and has
\* recorded its mismatch failure, the tag is still in the working tag set.
C17_MismatchKeepsTag ==
    /\ \A r \in CheckRuns :
        Constructed(r) =>
            \A p \in RulesOf(chk[r].span_tags_checks) :
                LET tc == chk[r].span_tags_checks[p[1]].tag_checks[p[2]]
                    seeded == check_extract_tags(chk[r].span, EmptyDict)
                IN ( /\ tc.value # PyNone
                     /\ Evaluated(chk[r], p)
                     /\ tc.name \in DOMAIN seeded
                     /\ ~PyEq(seeded[tc.name], tc.value)
                     /\ FailuresOf(chk[r], p, "MATCHING-TAG-ERROR") # {} )
                        => tc.name \in DOMAIN chk[r].tags
    /\ ( /\ val.pc = "raised"
         /\ Len(val.raised) > 0
         /\ val.raised[1].kind = "tag_mismatch_assertion" )
            => val.raised[1].tag \in DOMAIN val.tags

\* position q of a plan comes before position p
Before(q, p) == q[1] < p[1] \/ (q[1] = p[1] /\ q[2] < p[2])

\* the tags of the working tag set of check c that the rules before position
\* p have consumed: the span satisfies the rule and carries its tag
ConsumedBefore(c, p) ==
    {c.span_tags_checks[q[1]].tag_checks[q[2]].name :
        q \in {x \in RulesOf(c.span_tags_checks) :
                /\ Before(x, p)
                /\ Satisfied(c.span_tags_checks[x[1]].tag_checks[x[2]], OwnTags(c.span))}}
    \cap DOMAIN check_extract_tags(c.span, EmptyDict)

\* C18: presence is judged against the working tag set and not against the
\* span: no baseline field is ever in the working tag set, and an evaluated
\* required rule whose tag an earlier rule has consumed, or whose tag is a
\* baseline field such as name or service, has recorded a REQUIRED-TAG-ERROR.
C18_PresenceAgainstWorkingSet ==
    /\ \A r \in CheckRuns :
        Constructed(r) =>
            /\ DOMAIN chk[r].tags \cap IGNORED_TAGS = {}
            /\ \A p \in RulesOf(chk[r].span_tags_checks) :
                LET tc == chk[r].span_tags_checks[p[1]].tag_checks[p[2]]
                IN ( /\ Truthy(tc.required)
                     /\ Evaluated(chk[r], p)
                     /\ tc.name \in ConsumedBefore(chk[r], p) \cup IGNORED_TAGS )
                        => FailuresOf(chk[r], p, "REQUIRED-TAG-ERROR") # {}
    /\ DOMAIN val.tags \cap IGNORED_TAGS = {}

\* the type a type layer is to be resolved for: the spanType the integration
\* check declares when one was resolved, else the span's own type attribute
ResolvingType(span, checks) ==
    IF "integration_span_check" \in DOMAIN checks
    THEN checks["integration_span_check"].span_type
    ELSE GetVal(span, "type", PyNone)

\* the check made of the general specification of a type
TypeCheckOf(type) ==
    LET doc == GeneralSpecFiles[type \o "-spec.json"].docs[1]
    IN SpanTagChecks(doc.name, doc.tags, doc.type)

RECURSIVE Leaves(_)
Leaves(data) ==
    IF Len(data) = 0 THEN << >>
    ELSE (IF Head(data).d THEN Leaves(Head(data).c) ELSE <<Head(data)>>)
         \o Leaves(Tail(data))

\* the mapping from the leaf keys of a span that are not in `excluded` to the
\* value of their last occurrence
FlatOf(span, excluded) ==
    LET leaves == Leaves(span)
        last(k) == CHOOSE i \in 1..Len(leaves) :
                        /\ leaves[i].k = k
                        /\ \A j \in 1..Len(leaves) : leaves[j].k = k => j <= i
    IN [k \in {leaves[i].k : i \in 1..Len(leaves)} \ excluded |-> leaves[last(k)].v]

\* the working tag set of check r is as it was seeded: no rule has run
Seeded(r) == chk[r].pc = "checking" /\ chk[r].li = 1 /\ chk[r].ri = 1

\* the working tag set of the validator is as validate() seeded it
ValidatorSeeded == val.pc = "validating" /\ val.li = 1

\* C20 as claimed: the working tag set either entry point seeds maps exactly
\* the leaf keys of the span outside the baseline fields, at any depth and
\* unprefixed, to the value of their last occurrence, and the two flatteners
\* give the same mapping for the same span.
C20_FlattenersAgree ==
    /\ \A r \in CheckRuns :
        Seeded(r) => chk[r].tags = FlatOf(chk[r].span, IGNORED_TAGS)
    /\ ValidatorSeeded =>
            /\ val.tags = FlatOf(val.span, IGNORED_TAGS)
            /\ val.tags = check_extract_tags(val.span, EmptyDict)

\* C20 amended: as claimed, but the flattener of SpanTagValidator also leaves
\* out the key "type" when the validator was constructed with type rules;
\* the two flatteners give the same mapping exactly when it was constructed
\* without them or the span has no leaf key "type".
C20_FlattenersButType ==
    /\ \A r \in CheckRuns :
        Seeded(r) => chk[r].tags = FlatOf(chk[r].span, IGNORED_TAGS)
    /\ ValidatorSeeded =>
            /\ val.tags = FlatOf(val.span,
                                 IF val.type_span_rules_exist
                                 THEN IGNORED_TAGS \cup {"type"} ELSE IGNORED_TAGS)
            /\ val.tags = check_extract_tags(val.span, EmptyDict)
                <=> \/ ~val.type_span_rules_exist
                    \/ "type" \notin {Leaves(val.span)[i].k :
                                        i \in 1..Len(Leaves(val.span))}

\* a check was seeded from a span that carries the tag language in two
\* namespaces and a baseline field name inside a nested namespace
C20_Witness ==
    \E r \in CheckRuns :
        /\ Seeded(r)
        /\ Cardinality({i \in 1..Len(Leaves(chk[r].span)) :
                            Leaves(chk[r].span)[i].k = "language"}) = 2
        /\ Cardinality({i \in 1..Len(Leaves(chk[r].span)) :
                            Leaves(chk[r].span)[i].k = "service"}) = 2
        /\ chk[r].tags["language"] = PyStr("python")
        /\ "out.host" \in DOMAIN chk[r].tags

----------------------------------------------------------------------------
(* Claims C21 to C24 *)

\* the kinds of failure a TagCheck records
TagFailureKinds == {"REQUIRED-TAG-ERROR", "MATCHING-TAG-ERROR", "TAG-VALUE-TYPE-ERROR"}

\* what the rule at position p of check c records and raises when it is
\* judged against the tags of c's own span and nothing else
JudgedAlone(c, p) ==
    TagCheck_judge(c.span_tags_checks[p[1]].tag_checks[p[2]],
                   c.span_tags_checks[p[1]].name, OwnTags(c.span))

\* C21: two spans validated side by side by two callers get, under every
\* interleaving, what each gets alone: every evaluated rule has recorded the
\* failures, and raised the exception, that it does when judged against the
\* tags of its own span; no run sees a tag or a value of the other's span.
C21_ConcurrentAsAlone ==
    \A r \in CheckRuns :
        (session = "concurrent" /\ Constructed(r)) =>
            \A p \in RulesOf(chk[r].span_tags_checks) :
                Evaluated(chk[r], p) =>
                    /\ \A kind \in TagFailureKinds :
                        FailuresOf(chk[r], p, kind) # {}
                            <=> \E i \in 1..Len(JudgedAlone(chk[r], p).fails) :
                                    JudgedAlone(chk[r], p).fails[i].kind = kind
                    /\ (chk[r].pc = "raised" /\ p = <<chk[r].li, chk[r].ri>>)
                            <=> JudgedAlone(chk[r], p).exc # ""

\* a value is of the type a rule declares
OfDeclaredType(v, type) == v.ty = string_to_type_map[type.s]

\* the required and the optional rules of a SpanTagValidator layer
PresenceRules(tag_rules) == tag_rules._required_tags \o tag_rules._optional_tags

\* the working tag set validate() seeds for the span it was called with
ValidatorSeed == validator_extract_tags(val.span, EmptyDict, val.type_span_rules_exist)

\* the validator has run, without raising, a layer whose required or
\* optional rule `rule_type` declares a type the span's value for the tag is
\* not of, no earlier layer naming the tag
WrongTypePassed ==
    /\ InValidate
    /\ \E i \in 1..Len(val.span_tag_rules_list) :
        /\ i < val.li
        /\ \E j \in 1..Len(PresenceRules(val.span_tag_rules_list[i])) :
            LET rule == PresenceRules(val.span_tag_rules_list[i])[j]
            IN /\ Truthy(rule.type)
               /\ rule.name \in DOMAIN ValidatorSeed
               /\ ~OfDeclaredType(ValidatorSeed[rule.name], rule.type)
               /\ rule.name \notin NamedByRules(SubSeq(val.span_tag_rules_list, 1, i - 1))

\* C22: an evaluated required or optional rule without a "value" that
\* declares a type, on a tag the span carries: when the value is not of the
\* declared type it has recorded a TAG-VALUE-TYPE-ERROR and the tag is out of
\* the working tag set; when it is, it has recorded no failure.  Both entry
\* points: SpanTagValidator does not run past a tag of the wrong type
\* without a failure either.
C22_TypeMismatchRecorded ==
    /\ \A r \in CheckRuns :
        Constructed(r) =>
            \A p \in RulesOf(chk[r].span_tags_checks) :
                LET tc == chk[r].span_tags_checks[p[1]].tag_checks[p[2]]
                    flat == OwnTags(chk[r].span)
                IN ( /\ Evaluated(chk[r], p)
                     /\ tc.value = PyNone
                     /\ Truthy(tc.val_type)
                     /\ tc.name \in DOMAIN flat ) =>
                        IF OfDeclaredType(flat[tc.name], tc.val_type)
                        THEN \A kind \in TagFailureKinds :
                                FailuresOf(chk[r], p, kind) = {}
                        ELSE /\ FailuresOf(chk[r], p, "TAG-VALUE-TYPE-ERROR") # {}
                             /\ tc.name \notin DOMAIN chk[r].tags
    /\ ~WrongTypePassed

\* mapping a has only keys of mapping b, each with the value b gives it
SubMapping(a, b) == (DOMAIN a \subseteq DOMAIN b) /\ (\A k \in DOMAIN a : a[k] = b[k])

\* the working tag set validate() seeds for the span of validator v
SeedOf(v) == validator_extract_tags(v.span, EmptyDict, v.type_span_rules_exist)

\* C23: within one validation run the working tag set only shrinks: every
\* step leaves it a sub-mapping (same keys, same values) of what it was
\* before the step and of the flattened span, in both entry points; so no
\* tag is added or changed, and a removed tag does not come back.
C23_WorkingSetOnlyShrinks ==
    [][ /\ \A r \in CheckRuns :
            /\ Constructed(r)' =>
                    SubMapping(chk'[r].tags, check_extract_tags(chk'[r].span, EmptyDict))
            /\ Constructed(r) => SubMapping(chk'[r].tags, chk[r].tags)
        /\ InValidate' => SubMapping(val'.tags, SeedOf(val'))
        /\ val.pc = "validating" => SubMapping(val'.tags, val.tags) ]_vars

\* a check has finished, or a validator call has returned, with tags
\* consumed and tags left over
C23_Witness ==
    \/ \E r \in CheckRuns :
            /\ chk[r].pc = "done"
            /\ chk[r].tags # EmptyDict
            /\ chk[r].tags # check_extract_tags(chk[r].span, EmptyDict)
    \/ /\ val.pc = "done"
       /\ val.tags # EmptyDict
       /\ val.tags # ValidatorSeed

\* the span has a nested tag namespace
Nested(span) == \E i \in 1..Len(span) : span[i].d

\* C24: validation never mutates its input span: the span a check was
\* constructed with is the span it was handed, the span a validator call
\* flattened is one of the spans handed in (the one of the call before, when
\* there was one), and no later step of the run, whatever it takes out of the
\* working tag set, leaves the span different from what it was.
C24_SpanNotMutated ==
    [][ /\ \A r \in CheckRuns :
            /\ (found.pc = "ok" /\ found.run = r /\ found'.pc # "ok") =>
                    chk'[r].span = found.span
            /\ chk[r].pc # "new" => chk'[r].span = chk[r].span
        /\ (val.pc # "validating" /\ val'.pc = "validating") =>
                /\ val'.span \in ValidatorSpans
                /\ Len(val.calls) > 0 => val'.span = val.span
        /\ val.pc = "validating" => val'.span = val.span ]_vars

\* a check of a span with a nested tag namespace has finished with tags
\* consumed from the working tag set
C24_Witness ==
    \E r \in CheckRuns :
        /\ chk[r].pc = "done"
        /\ Nested(chk[r].span)
        /\ chk[r].tags # check_extract_tags(chk[r].span, EmptyDict)

====
